---- MODULE Spec2Model ----
(***************************************************************************)
(* Model of addr2line_breakpad (src/addr2line_breakpad/src/lib.rs) and of  *)
(* the crash-log symbolicator ips_breakpad (src/ips_breakpad/src/main.rs). *)
(*                                                                         *)
(* Text is modelled as a sequence of one-character strings, so that        *)
(* tokenizing, number parsing/formatting and pattern matching are computed *)
(* character by character as the code does.                                *)
(*                                                                         *)
(* u64/i64 values are modelled as TLA+ integers.  Every number that Spec,   *)
(* SpecRangeMap, SpecTokenize and SpecIps draw is far below 2^63, so no    *)
(* addition or parse of those specifications leaves the 64-bit range;      *)
(* SpecOverflow keeps the width of a word and the overflow of its sums.    *)
(***************************************************************************)
EXTENDS Integers, Sequences, FiniteSets, TLC

VARIABLES
    pc,           \* position of the modelled program / test driver
    line,         \* the text line an operation was applied to
    max_tokens,   \* the max_tokens argument of the tokenizer call
    tokens,       \* Vec<&str> returned by the tokenizer call
    symbol_file,  \* SymbolFile {files, functions, lines, public_symbols}
    unread,       \* the lines the rest of the symbol file may hold
    parsed,       \* the symbol-file lines read so far
    address,      \* the address argument of the last lookup / retrieve
    result,       \* Option<Symbol> / Option<&T> returned by the last query
    output        \* lines printed to stdout by parser_ips

vars == <<pc, line, max_tokens, tokens, symbol_file, unread, parsed, address, result, output>>

(***************************************************************************)
(* Bounds of the model.                                                    *)
(***************************************************************************)
MaxLineLen == 5     \* longest tokenizer input drawn
MaxTokens == 4      \* largest max_tokens drawn
LowAddr == 9        \* lowest record address of a generated symbol file
AddrSpan == 2       \* generated record addresses are LowAddr..LowAddr+AddrSpan
MaxSize == 2        \* largest record size of a generated symbol file
MaxLines == 3       \* most lines read from a symbol file
MaxKey == 2         \* largest start address of a generated RangeMap::insert call
MaxInserts == 3     \* most generated RangeMap::insert calls

(***************************************************************************)
(* Text helpers.                                                           *)
(***************************************************************************)
Min(a, b) == IF a <= b THEN a ELSE b

Max(a, b) == IF a >= b THEN a ELSE b

SeqsUpTo(S, n) == UNION {[1..k -> S] : k \in 0..n}

Tail2(s, i) == SubSeq(s, i, Len(s))

\* str::starts_with
starts_with(s, prefix) ==
    /\ Len(s) >= Len(prefix)
    /\ SubSeq(s, 1, Len(prefix)) = prefix

\* Index of the first occurrence of the non-empty pattern in txt, 0 if none.
FindFirst(txt, pattern) ==
    LET hits == {i \in 1..(Len(txt) - Len(pattern) + 1) :
                    SubSeq(txt, i, i + Len(pattern) - 1) = pattern}
    IN  IF hits = {} THEN 0 ELSE CHOOSE i \in hits : \A j \in hits : i <= j

\* txt.splitn(2, token): first item, and second item (unwrap_or("")).
SplitnHead(txt, token) ==
    LET i == FindFirst(txt, token)
    IN  IF i = 0 THEN txt ELSE SubSeq(txt, 1, i - 1)

SplitnRest(txt, token) ==
    LET i == FindFirst(txt, token)
    IN  IF i = 0 THEN <<>> ELSE Tail2(txt, i + Len(token))

(***************************************************************************)
(* Tokenizer (lib.rs 270-312).                                             *)
(***************************************************************************)
RECURSIVE TokenizeLoop(_, _, _, _, _)
\* The while loop of tokenize and the push that follows it.
TokenizeLoop(res, remaining, part_a, txt, token) ==
    IF part_a # <<>> /\ remaining > 0
    THEN TokenizeLoop(Append(res, part_a),
                      remaining - 1,
                      IF remaining > 1 THEN SplitnHead(txt, token) ELSE part_a,
                      IF remaining > 1 THEN SplitnRest(txt, token) ELSE txt,
                      token)
    ELSE IF remaining = 0 /\ Len(txt) > 0
         THEN Append(res, txt)
         ELSE res

\* tokenize(line, token, max_tokens), for max_tokens >= 1 (max_tokens = 0
\* underflows `max_tokens - 1` and is never passed by the specifications).
tokenize(ln, token, n) ==
    TokenizeLoop(<<>>, n - 1, SplitnHead(ln, token), SplitnRest(ln, token), token)

\* The part of tokenize_with_optional_field after its first tokenize call:
\* when the first token is the optional field, the last token is tokenized
\* again into two.
SplitLastToken(toks, optional_field, token) ==
    IF (IF Len(toks) > 0 THEN toks[1] ELSE <<>>) = optional_field
    THEN SubSeq(toks, 1, Len(toks) - 1) \o tokenize(toks[Len(toks)], token, 2)
    ELSE toks

\* tokenize_with_optional_field(line, optional_field, token, max_tokens),
\* for max_tokens >= 2.
tokenize_with_optional_field(ln, optional_field, token, n) ==
    SplitLastToken(tokenize(ln, token, n - 1), optional_field, token)

(***************************************************************************)
(* Numbers in text.                                                        *)
(***************************************************************************)
LowerDigits == <<"0", "1", "2", "3", "4", "5", "6", "7", "8", "9",
                 "a", "b", "c", "d", "e", "f">>

UpperDigits == <<"0", "1", "2", "3", "4", "5", "6", "7", "8", "9",
                 "A", "B", "C", "D", "E", "F">>

\* char::to_digit(radix): the digit's value, -1 when c is no digit of the radix.
to_digit(c, radix) ==
    IF \E i \in 1..radix : LowerDigits[i] = c \/ UpperDigits[i] = c
    THEN (CHOOSE i \in 1..radix : LowerDigits[i] = c \/ UpperDigits[i] = c) - 1
    ELSE -1

RECURSIVE DigitsValue(_, _)
DigitsValue(s, radix) ==
    IF s = <<>> THEN 0
    ELSE DigitsValue(SubSeq(s, 1, Len(s) - 1), radix) * radix
             + to_digit(s[Len(s)], radix)

Err == [ok |-> FALSE]

Ok(v) == [ok |-> TRUE, val |-> v]

\* u64::from_str_radix / i64::from_str_radix / str::parse::<u64> (radix 10):
\* an optional sign ('-' for the signed type only), then one digit or more.
from_str_radix(s, radix, signed) ==
    IF s = <<>> THEN Err
    ELSE LET neg == signed /\ s[1] = "-"
             digits == IF s[1] = "+" \/ neg THEN Tail(s) ELSE s
         IN  IF digits = <<>> \/ \E i \in 1..Len(digits) : to_digit(digits[i], radix) = -1
             THEN Err
             ELSE Ok(IF neg THEN 0 - DigitsValue(digits, radix)
                     ELSE DigitsValue(digits, radix))

RECURSIVE FormatRadix(_, _)
\* The digits of n >= 0 in the radix, lower case, no prefix.
FormatRadix(n, radix) ==
    IF n < radix THEN <<LowerDigits[n + 1]>>
    ELSE FormatRadix(n \div radix, radix) \o <<LowerDigits[(n % radix) + 1]>>

\* i64::to_string
to_string(n) == IF n < 0 THEN <<"-">> \o FormatRadix(0 - n, 10) ELSE FormatRadix(n, 10)

IsSpace(c) == c \in {" ", "\t", "\r", "\n"}

\* str::trim
trim(s) ==
    LET keep == {i \in 1..Len(s) : ~IsSpace(s[i])}
    IN  IF keep = {} THEN <<>>
        ELSE SubSeq(s, CHOOSE i \in keep : \A j \in keep : i <= j,
                       CHOOSE i \in keep : \A j \in keep : i >= j)

(***************************************************************************)
(* RangeMap and the address resolver (lib.rs 59-130).                      *)
(* A BTreeMap is a function from its keys; Option is None or Some(v).      *)
(***************************************************************************)
None == [some |-> FALSE]

Some(v) == [some |-> TRUE, val |-> v]

\* BTreeMap::insert / HashMap::insert: the entry of an existing key is replaced.
MapInsert(map, key, value) ==
    [k \in DOMAIN map \cup {key} |-> IF k = key THEN value ELSE map[k]]

\* The range query with the address itself excluded: the greatest key below it.
RangeNextBackExcluded(map, addr) ==
    LET keys == {k \in DOMAIN map : 0 <= k /\ k < addr}
    IN  IF keys = {} THEN -1 ELSE CHOOSE k \in keys : \A j \in keys : j <= k

\* map.range((Included(&0), Included(&address))).next_back(): the greatest key
\* in 0..address, -1 when there is none.
RangeNextBack(map, addr) ==
    LET keys == {k \in DOMAIN map : 0 <= k /\ k <= addr}
    IN  IF keys = {} THEN -1 ELSE CHOOSE k \in keys : \A j \in keys : j <= k

\* RangeMap::insert
insert(map, start, size, item) == MapInsert(map, start, [item |-> item, size |-> size])

\* retrieve_range with the end of a range excluded (a half-open range).
retrieve_range_half_open(map, addr) ==
    LET target_address == RangeNextBack(map, addr)
    IN  IF target_address = -1 THEN None
        ELSE IF target_address <= addr /\ addr < target_address + map[target_address].size
             THEN Some(map[target_address].item)
             ELSE None

\* retrieve_range without the check of the end of the range.
retrieve_range_unbounded(map, addr) ==
    LET target_address == RangeNextBack(map, addr)
    IN  IF target_address = -1 THEN None ELSE Some(map[target_address].item)

\* RangeMap::retrieve_range
retrieve_range(map, addr) ==
    LET target_address == RangeNextBack(map, addr)
    IN  IF target_address = -1 THEN None
        ELSE LET range_item == map[target_address]
                 target_size == range_item.size
             IN  IF target_address <= addr /\ addr <= target_address + target_size
                 THEN Some(range_item.item)
                 ELSE None

find_public_symbol_by_address(map, addr) ==
    LET target_address == RangeNextBack(map, addr)
    IN  IF target_address = -1 THEN None
        ELSE IF target_address <= addr THEN Some(map[target_address]) ELSE None

Symbol(function_name, source_file_name, source_file_number) ==
    [function_name |-> function_name,
     source_file_name |-> source_file_name,
     source_file_number |-> source_file_number]

\* A lookup that answers with whichever of the function and the public symbol
\* starts closer to the address.
lookup_address_closest(sf, addr) ==
    LET function_record == retrieve_range(sf.functions, addr)
        public_record == find_public_symbol_by_address(sf.public_symbols, addr)
    IN  IF function_record.some
           /\ ~(public_record.some /\ public_record.val.address > function_record.val.address)
        THEN Some(Symbol(function_record.val.name, <<>>, -1))
        ELSE IF public_record.some
             THEN Some(Symbol(public_record.val.name, <<>>, -1))
             ELSE None

\* A lookup that consults the line index for the public-symbol answer too.
lookup_address_lines_always(sf, addr) ==
    LET function_record == retrieve_range(sf.functions, addr)
        ln == retrieve_range(sf.lines, addr)
        public_record == find_public_symbol_by_address(sf.public_symbols, addr)
        file == IF ln.some /\ ln.val.source_file_id \in DOMAIN sf.files
                THEN sf.files[ln.val.source_file_id]
                ELSE <<>>
        number == IF ln.some THEN ln.val.line_number ELSE -1
    IN  IF function_record.some
        THEN Some(Symbol(function_record.val.name, file, number))
        ELSE IF public_record.some
             THEN Some(Symbol(public_record.val.name, file, number))
             ELSE None

lookup_address(sf, addr) ==
    LET function_record == retrieve_range(sf.functions, addr)
        ln == retrieve_range(sf.lines, addr)
        public_record == find_public_symbol_by_address(sf.public_symbols, addr)
    IN  IF function_record.some
        THEN Some(Symbol(function_record.val.name,
                         IF ln.some /\ ln.val.source_file_id \in DOMAIN sf.files
                         THEN sf.files[ln.val.source_file_id]
                         ELSE <<>>,
                         IF ln.some THEN ln.val.line_number ELSE -1))
        ELSE IF public_record.some
             THEN Some(Symbol(public_record.val.name, <<>>, -1))
             ELSE None

(***************************************************************************)
(* Symbol-file parser (lib.rs 132-268).  A parse step returns the updated  *)
(* SymbolFile, or Panicked when an unwrap() of the step fails.             *)
(***************************************************************************)
Panicked == [ok |-> FALSE]

Parsed(sf) == [ok |-> TRUE, sf |-> sf]

FILE_PREFIX == <<"F", "I", "L", "E", " ">>

STACK_PREFIX == <<"S", "T", "A", "C", "K", " ">>

FUNC_PREFIX == <<"F", "U", "N", "C", " ">>

PUBLIC_PREFIX == <<"P", "U", "B", "L", "I", "C", " ">>

MODULE_PREFIX == <<"M", "O", "D", "U", "L", "E", " ">>

INFO_PREFIX == <<"I", "N", "F", "O", " ">>

\* tokens.get(i).unwrap() and from_str_radix(..).unwrap() of a parse function:
\* the parsed number, Err when the token is missing or is no number.
NumberField(toks, i, radix, signed) ==
    IF Len(toks) < i THEN Err ELSE from_str_radix(toks[i], radix, signed)

\* parse_line_line from its tokens on.
LineFromTokens(sf, toks) ==
    LET addr == NumberField(toks, 1, 16, FALSE)
        size == NumberField(toks, 2, 16, FALSE)
        line_number == NumberField(toks, 3, 10, TRUE)
        source_file_id == NumberField(toks, 4, 10, TRUE)
    IN  IF ~(addr.ok /\ size.ok /\ line_number.ok /\ source_file_id.ok)
        THEN Panicked
        ELSE Parsed([sf EXCEPT !.lines =
               insert(@, addr.val, size.val,
                      [address |-> addr.val,
                       size |-> size.val,
                       line_number |-> line_number.val,
                       source_file_id |-> source_file_id.val])])

parse_line_line(sf, l) == LineFromTokens(sf, tokenize(trim(l), <<" ">>, 4))

\* is_multiple and offset of parse_public_line and parse_func_line.
IsMultiple(toks) == Len(toks) >= 5 /\ toks[1] = <<"m">>

FieldOffset(toks) == IF IsMultiple(toks) THEN 1 ELSE 0

\* parse_public_line from its tokens on.
PublicFromTokens(sf, toks) ==
    LET addr == NumberField(toks, FieldOffset(toks) + 1, 16, FALSE)
        stack_param_size == NumberField(toks, FieldOffset(toks) + 2, 16, TRUE)
    IN  IF Len(toks) < FieldOffset(toks) + 3 \/ ~(addr.ok /\ stack_param_size.ok)
        THEN Panicked
        ELSE Parsed([sf EXCEPT !.public_symbols =
               MapInsert(@, addr.val,
                         [address |-> addr.val,
                          stack_param_size |-> stack_param_size.val,
                          name |-> toks[FieldOffset(toks) + 3],
                          is_multiple |-> IsMultiple(toks)])])

parse_public_line(sf, l) ==
    PublicFromTokens(sf, tokenize_with_optional_field(trim(Tail2(l, 8)), <<"m">>, <<" ">>, 4))

\* parse_func_line from its tokens on.
FuncFromTokens(sf, toks) ==
    LET addr == NumberField(toks, FieldOffset(toks) + 1, 16, FALSE)
        size == NumberField(toks, FieldOffset(toks) + 2, 16, FALSE)
        stack_param_size == NumberField(toks, FieldOffset(toks) + 3, 16, TRUE)
    IN  IF Len(toks) < FieldOffset(toks) + 4
               \/ ~(addr.ok /\ size.ok /\ stack_param_size.ok)
        THEN Panicked
        ELSE Parsed([sf EXCEPT !.functions =
               insert(@, addr.val, size.val,
                      [address |-> addr.val,
                       size |-> size.val,
                       name |-> toks[FieldOffset(toks) + 4],
                       is_multiple |-> IsMultiple(toks),
                       stack_param_size |-> stack_param_size.val])])

parse_func_line(sf, l) ==
    FuncFromTokens(sf, tokenize_with_optional_field(trim(Tail2(l, 6)), <<"m">>, <<" ">>, 5))

\* parse_file_line from its tokens on.
FileFromTokens(sf, toks) ==
    LET id == NumberField(toks, 1, 10, TRUE)
    IN  IF Len(toks) < 2 \/ ~id.ok THEN Panicked
        ELSE Parsed([sf EXCEPT !.files = MapInsert(@, id.val, toks[2])])

parse_file_line(sf, l) == FileFromTokens(sf, tokenize(trim(Tail2(l, 6)), <<" ">>, 2))

\* The body of the loop of parse_breakpad_symbol_file, for one line.
parse_symbol_line(sf, l) ==
    IF starts_with(l, FILE_PREFIX) THEN parse_file_line(sf, l)
    ELSE IF starts_with(l, STACK_PREFIX) THEN Parsed(sf)
    ELSE IF starts_with(l, FUNC_PREFIX) THEN parse_func_line(sf, l)
    ELSE IF starts_with(l, PUBLIC_PREFIX) THEN parse_public_line(sf, l)
    ELSE IF starts_with(l, MODULE_PREFIX) THEN Parsed(sf)
    ELSE IF starts_with(l, INFO_PREFIX) THEN Parsed(sf)
    ELSE parse_line_line(sf, l)

(***************************************************************************)
(* Empty values of the state that a specification does not use.            *)
(***************************************************************************)
EmptyMap == [k \in {} |-> 0]

EmptySymbolFile ==
    [files |-> EmptyMap, functions |-> EmptyMap,
     lines |-> EmptyMap, public_symbols |-> EmptyMap]

(***************************************************************************)
(* SpecTokenize: the tokenizer applied to every line over TokChars of at   *)
(* most MaxLineLen characters, with every max_tokens up to MaxTokens.      *)
(***************************************************************************)
SP == <<" ">>

FLAG == <<"m">>

TokChars == {"m", "a", " "}

InitTokenize ==
    /\ pc = "start"
    /\ line \in SeqsUpTo(TokChars, MaxLineLen)
    /\ max_tokens \in 1..MaxTokens
    /\ tokens = <<>>
    /\ symbol_file = EmptySymbolFile
    /\ unread = {}
    /\ parsed = {}
    /\ address = 0
    /\ result = None
    /\ output = <<>>

Tokenize ==
    /\ pc = "start"
    /\ tokens' = tokenize(line, SP, max_tokens)
    /\ pc' = "tokenized"
    /\ UNCHANGED <<line, max_tokens, symbol_file, unread, parsed, address, result, output>>

TokenizeWithOptionalField ==
    /\ pc = "start"
    /\ max_tokens >= 2
    /\ tokens' = tokenize_with_optional_field(line, FLAG, SP, max_tokens)
    /\ pc' = "tokenized_opt"
    /\ UNCHANGED <<line, max_tokens, symbol_file, unread, parsed, address, result, output>>

NextTokenize == Tokenize \/ TokenizeWithOptionalField

SpecTokenize == InitTokenize /\ [][NextTokenize]_vars

(***************************************************************************)
(* Spec: parse_breakpad_symbol_file reads up to MaxLines lines of a        *)
(* generated symbol file, then lookup_address is called.                   *)
(*                                                                         *)
(* The lines are generated from records: for each address of               *)
(* LowAddr..LowAddr+AddrSpan a FUNC record and a line record of size 0     *)
(* and of size MaxSize, and a PUBLIC record; a FUNC and a PUBLIC record    *)
(* with the 'm' marker; two FILE records; and the records of the           *)
(* end-to-end scenario of the specification.                               *)
(***************************************************************************)
\* parse_address (lib.rs 314-321)
parse_address(txt) ==
    from_str_radix(IF starts_with(txt, <<"0", "x">>) THEN Tail2(txt, 3) ELSE txt,
                   16, FALSE)

RecAddrs == LowAddr..(LowAddr + AddrSpan)

RecSizes == {0, MaxSize}

\* Names with and without an embedded space.
FuncName(a) ==
    IF a % 2 = 0 THEN <<"f", " ">> \o FormatRadix(a, 16) ELSE <<"f">> \o FormatRadix(a, 16)

PublicName(a) ==
    IF a % 2 = 1 THEN <<"p", " ">> \o FormatRadix(a, 16) ELSE <<"p">> \o FormatRadix(a, 16)

MY_FUNC == <<"m", "y", "F", "u", "n", "c">>

FOO_C == <<"f", "o", "o", ".", "c">>

BAR_C == <<"b", "a", "r", ".", "c">>

FuncRec(m, a, size, param, name) ==
    [kind |-> "FUNC", m |-> m, address |-> a, size |-> size,
     stack_param_size |-> param, name |-> name]

PublicRec(m, a, param, name) ==
    [kind |-> "PUBLIC", m |-> m, address |-> a,
     stack_param_size |-> param, name |-> name]

LineRec(a, size, line_number, file_id) ==
    [kind |-> "LINE", address |-> a, size |-> size,
     line_number |-> line_number, source_file_id |-> file_id]

FileRec(id, name) == [kind |-> "FILE", id |-> id, name |-> name]

\* The records of the end-to-end scenario: FUNC 100 10 0 myFunc, 1a 2 5 1,
\* FILE 1 foo.c.
E2EFunc == FuncRec(FALSE, 256, 16, 0, MY_FUNC)

E2ELine == LineRec(26, 2, 5, 1)

E2EFile == FileRec(1, FOO_C)

E2EQuery == parse_address(<<"0", "x", "1", "0", "1">>).val

G_H == <<"g", " ", "h">>

FuncRecords ==
    {FuncRec(FALSE, a, size, 0, FuncName(a)) : a \in RecAddrs, size \in RecSizes}
        \cup {FuncRec(TRUE, LowAddr, MaxSize, 28, G_H), E2EFunc}

PublicRecords ==
    {PublicRec(FALSE, a, 0, PublicName(a)) : a \in RecAddrs}
        \cup {PublicRec(TRUE, LowAddr + 1, 28, G_H)}

LineRecords ==
    {LineRec(a, size, 30 + a, 1 + (a % 2)) : a \in RecAddrs, size \in RecSizes}
        \cup {E2ELine}

FileRecords == {E2EFile, FileRec(2, BAR_C)}

Records == FuncRecords \cup PublicRecords \cup LineRecords \cup FileRecords

Marker(m) == IF m THEN <<"m", " ">> ELSE <<>>

\* The text line of a record, in the Breakpad symbol file format.
FormatRecord(r) ==
    CASE r.kind = "FUNC" ->
            FUNC_PREFIX \o Marker(r.m) \o FormatRadix(r.address, 16) \o SP
                \o FormatRadix(r.size, 16) \o SP
                \o FormatRadix(r.stack_param_size, 16) \o SP \o r.name
      [] r.kind = "PUBLIC" ->
            PUBLIC_PREFIX \o Marker(r.m) \o FormatRadix(r.address, 16) \o SP
                \o FormatRadix(r.stack_param_size, 16) \o SP \o r.name
      [] r.kind = "LINE" ->
            FormatRadix(r.address, 16) \o SP \o FormatRadix(r.size, 16) \o SP
                \o to_string(r.line_number) \o SP \o to_string(r.source_file_id)
      [] r.kind = "FILE" ->
            FILE_PREFIX \o to_string(r.id) \o SP \o r.name

\* The line of each record, computed once.
LineOf == [r \in Records |-> FormatRecord(r)]

SymLines == {LineOf[r] : r \in Records}

QueryAddrs == ((LowAddr - 1)..(LowAddr + AddrSpan + MaxSize + 1)) \cup {E2EQuery}

Init ==
    /\ pc = "parsing"
    /\ line = <<>>
    /\ max_tokens = 0
    /\ tokens = <<>>
    /\ symbol_file = EmptySymbolFile
    /\ unread = SymLines
    /\ parsed = {}
    /\ address = 0
    /\ result = None
    /\ output = <<>>

\* One iteration of the loop of parse_breakpad_symbol_file: the next line of
\* the file is read and dispatched; a failed unwrap() aborts the process.
ParseLine ==
    /\ pc = "parsing"
    /\ Cardinality(parsed) < MaxLines
    /\ \E l \in unread :
        LET r == parse_symbol_line(symbol_file, l)
        IN  /\ unread' = unread \ {l}
            /\ parsed' = parsed \cup {l}
            /\ IF r.ok
               THEN symbol_file' = r.sf /\ pc' = "parsing"
               ELSE symbol_file' = symbol_file /\ pc' = "panicked"
    /\ UNCHANGED <<line, max_tokens, tokens, address, result, output>>

\* End of file: parse_breakpad_symbol_file returns the SymbolFile.
FinishParse ==
    /\ pc = "parsing"
    /\ pc' = "ready"
    /\ UNCHANGED <<line, max_tokens, tokens, symbol_file, unread, parsed, address, result, output>>

\* main (addr2line_breakpad/src/main.rs 28-39): one lookup per address.
Lookup ==
    /\ pc \in {"ready", "looked_up"}
    /\ \E a \in QueryAddrs :
        /\ address' = a
        /\ result' = lookup_address(symbol_file, a)
    /\ pc' = "looked_up"
    /\ UNCHANGED <<line, max_tokens, tokens, symbol_file, unread, parsed, output>>

Next == ParseLine \/ FinishParse \/ Lookup

Spec == Init /\ [][Next]_vars

(***************************************************************************)
(* SpecRangeMap: the RangeMap of functions driven directly, as             *)
(* tests::test_find_function_by_address drives it: insert calls, then      *)
(* retrieve_range.  `parsed` holds the insert calls made, in order.        *)
(***************************************************************************)
\* The item of a call: Function {address, size, ..Default::default()}, with
\* the ordinal of the call as its name to tell the items of two calls apart.
TestFunction(start, size, ordinal) ==
    [address |-> start, size |-> size, name |-> to_string(ordinal),
     is_multiple |-> FALSE, stack_param_size |-> 0]

\* The insert calls of the test: the ranges 0-2, 2-3, 3-4, 6-7, 7-8.
TestCalls == <<[start |-> 0, size |-> 2], [start |-> 2, size |-> 1],
               [start |-> 3, size |-> 1], [start |-> 6, size |-> 1],
               [start |-> 7, size |-> 1]>>

RECURSIVE InsertAll(_, _, _)
\* The calls from the i-th on, applied in order.
InsertAll(map, calls, i) ==
    IF i > Len(calls) THEN map
    ELSE InsertAll(insert(map, calls[i].start, calls[i].size,
                          TestFunction(calls[i].start, calls[i].size, i)),
                   calls, i + 1)

InitRangeMap ==
    /\ pc = "building"
    /\ line = <<>>
    /\ max_tokens = 0
    /\ tokens = <<>>
    /\ symbol_file = EmptySymbolFile
    /\ unread = {}
    /\ parsed = <<>>
    /\ address = 0
    /\ result = None
    /\ output = <<>>

\* symbol_file.functions.insert(start, size, Function {..})
Insert ==
    /\ pc = "building"
    /\ Len(parsed) < MaxInserts
    /\ \E start \in 0..MaxKey, size \in 0..MaxSize :
        /\ symbol_file' = [symbol_file EXCEPT !.functions =
              insert(@, start, size, TestFunction(start, size, Len(parsed) + 1))]
        /\ parsed' = Append(parsed, [start |-> start, size |-> size])
    /\ UNCHANGED <<pc, line, max_tokens, tokens, unread, address, result, output>>

\* The five insert calls of the test.
InsertTestRanges ==
    /\ pc = "building"
    /\ parsed = <<>>
    /\ symbol_file' = [symbol_file EXCEPT !.functions = InsertAll(@, TestCalls, 1)]
    /\ parsed' = TestCalls
    /\ UNCHANGED <<pc, line, max_tokens, tokens, unread, address, result, output>>

\* symbol_file.functions.retrieve_range(address)
Retrieve ==
    /\ pc \in {"building", "retrieved"}
    /\ \E a \in (0..(MaxKey + MaxSize + 1)) \cup {3, 5} :
        /\ address' = a
        /\ result' = retrieve_range(symbol_file.functions, a)
    /\ pc' = "retrieved"
    /\ UNCHANGED <<line, max_tokens, tokens, symbol_file, unread, parsed, output>>

NextRangeMap == Insert \/ InsertTestRanges \/ Retrieve

SpecRangeMap == InitRangeMap /\ [][NextRangeMap]_vars

(***************************************************************************)
(* Crash-log symbolicator (ips_breakpad/src/main.rs 49-106).               *)
(*                                                                         *)
(* The frame pattern of parser_ips (index, module, 0x memory address, 0x   *)
(* base address, + and offset, anchored at both ends of the line) is a     *)
(* sequence of segments: a literal, or a run of characters of a class      *)
(* with a least and a greatest length, some of them captured under a name. *)
(* Matching is the regex engine's: each run is tried at its longest first  *)
(* and shortened until the rest of the pattern matches.                    *)
(***************************************************************************)
DecDigits == {"0", "1", "2", "3", "4", "5", "6", "7", "8", "9"}

HexDigits == DecDigits \cup {"a", "b", "c", "d", "e", "f"}

SoChars == {"a", "b", "c", "d", "e", "f", "g", "h", "i", "j", "k",
            "l", "m", "n", "o", "p", "q", "r", "s", "t", "u", "v",
            "w", "x", "y", "z", "A", "B", "C", "D", "E", "F", "G",
            "H", "I", "J", "K", "L", "M", "N", "O", "P", "Q", "R",
            "S", "T", "U", "V", "W", "X", "Y", "Z", "."}

WhiteSpace == {" ", "\t", "\r", "\n"}

Lit(txt) == [kind |-> "lit", txt |-> txt]

Run(class, least, most, name) ==
    [kind |-> "run", class |-> class, least |-> least, most |-> most, name |-> name]

\* Longest run length of a frame line; stands for an unbounded repetition.
Unbounded == 64

FramePattern ==
    <<Run(DecDigits, 1, Unbounded, "i"),
      Run(WhiteSpace, 0, Unbounded, ""),
      Run(SoChars, 0, Unbounded, "so"),
      Run(WhiteSpace, 0, Unbounded, ""),
      Lit(<<"0", "x">>),
      Run(HexDigits, 0, Unbounded, "mem_address"),
      Run(WhiteSpace, 0, Unbounded, ""),
      Lit(<<"0", "x">>),
      Run(HexDigits, 0, Unbounded, "base"),
      Run(WhiteSpace, 1, 1, ""),
      Lit(<<"+">>),
      Run(WhiteSpace, 1, 1, ""),
      Run(DecDigits, 0, Unbounded, "offset")>>

NoCaptures == [ok |-> FALSE]

RECURSIVE RunLength(_, _, _)
\* The number of consecutive characters of the class from position pos on.
RunLength(txt, pos, class) ==
    IF pos > Len(txt) \/ txt[pos] \notin class THEN 0
    ELSE 1 + RunLength(txt, pos + 1, class)

\* The first of two match results that is a match.
FirstMatch(r, alt) == IF r.ok THEN r ELSE alt

\* The captures with the text of a named run added.
Capture(caps, name, txt) ==
    IF name = "" THEN caps
    ELSE [n \in DOMAIN caps \cup {name} |-> IF n = name THEN txt ELSE caps[n]]

RECURSIVE MatchFrom(_, _, _, _)
RECURSIVE TryRun(_, _, _, _, _)
\* The segments from the k-th on matched at position pos, to the end of the
\* line ($).
MatchFrom(txt, pos, k, caps) ==
    IF k > Len(FramePattern)
    THEN IF pos = Len(txt) + 1 THEN caps ELSE NoCaptures
    ELSE IF FramePattern[k].kind = "lit"
         THEN IF starts_with(Tail2(txt, pos), FramePattern[k].txt)
              THEN MatchFrom(txt, pos + Len(FramePattern[k].txt), k + 1, caps)
              ELSE NoCaptures
         ELSE TryRun(txt, pos, k, caps,
                     Min(RunLength(txt, pos, FramePattern[k].class), FramePattern[k].most))

\* The k-th segment, a run, tried with n characters, then with fewer.
TryRun(txt, pos, k, caps, n) ==
    IF n < FramePattern[k].least THEN NoCaptures
    ELSE FirstMatch(MatchFrom(txt, pos + n, k + 1,
                              Capture(caps, FramePattern[k].name,
                                      SubSeq(txt, pos, pos + n - 1))),
                    TryRun(txt, pos, k, caps, n - 1))

\* re.captures(line): ^ anchors the match at the start of the line.
captures(txt) == MatchFrom(txt, 1, 1, [ok |-> TRUE])

RECURSIVE replace(_, _, _)
\* str::replace: every occurrence of a non-empty pattern, left to right,
\* without overlap.
replace(txt, from, to) ==
    IF starts_with(txt, from)
    THEN to \o replace(Tail2(txt, Len(from) + 1), from, to)
    ELSE IF txt = <<>> THEN <<>>
         ELSE <<txt[1]>> \o replace(Tail(txt), from, to)

UNKNOWN_FILE == <<"?", "?">>

UNKNOWN_LINE == <<"?">>

NOT_FOUND == <<"N", "o", "t", " ", "f", "o", "u", "n", "d", " ", "s", "y", "m", "b", "o", "l", " ", "f", "o", "r", " ", "a", "d", "d", "r", "e", "s", "s", "(">>

\* format!("{} {}:{}", ..) of a found symbol.
FormatSymbol(symbol) ==
    symbol.function_name \o <<" ">>
        \o (IF Len(symbol.source_file_name) # 0 THEN symbol.source_file_name
            ELSE UNKNOWN_FILE)
        \o <<":">>
        \o (IF symbol.source_file_number # -1 THEN to_string(symbol.source_file_number)
            ELSE UNKNOWN_LINE)

\* get_symed_line; {:#x} is 0x and the lower-case hex digits.
get_symed_line(sf, addr) ==
    IF lookup_address(sf, addr).some
    THEN FormatSymbol(lookup_address(sf, addr).val)
    ELSE NOT_FOUND \o <<"0", "x">> \o FormatRadix(addr, 16)

\* The module name main passes to parser_ips.
SONAME == <<"U", "n", "i", "t", "y", "F", "r", "a", "m", "e", "w", "o", "r", "k">>

\* The lines println! writes for a matched frame of the target module whose
\* offset is the text offset_text: the rewritten line, none when the offset
\* is no u64.
PrintedForOffset(sf, ln, offset_text, offset) ==
    IF offset.ok
    THEN <<replace(ln, offset_text, get_symed_line(sf, offset.val))>>
    ELSE <<>>

\* The lines println! writes for a line whose captures are cap.
PrintedForCaptures(sf, ln, cap) ==
    IF cap.ok
    THEN IF cap.so = SONAME
         THEN PrintedForOffset(sf, ln, cap.offset, from_str_radix(cap.offset, 10, FALSE))
         ELSE <<>>
    ELSE <<ln>>

\* The body of the loop of parser_ips for one line of the report.
parser_ips_line(sf, ln) == PrintedForCaptures(sf, ln, captures(ln))

(***************************************************************************)
(* SpecIps: parser_ips reading a crash report line by line.  The report    *)
(* lines are frames of the target module and of another module, with       *)
(* offsets that resolve, that do not, and an empty one, with a base        *)
(* address that holds the digits of an offset and one that does not; a     *)
(* frame with upper-case hex digits; and a header line.                    *)
(***************************************************************************)
MaxReport == 2      \* most lines of a crash report

OTHER_SO == <<"l", "i", "b", "f", "o", "o", ".", "d", "y", "l", "i", "b">>

HEADER == <<"T", "h", "r", "e", "a", "d", " ", "0", " ", "C", "r", "a", "s", "h", "e", "d", ":">>

IpsFrame(i, so, mem_address, base, offset) ==
    i \o SP \o so \o SP \o <<"0", "x">> \o mem_address \o SP
      \o <<"0", "x">> \o base \o <<" ", "+", " ">> \o offset

OffsetTexts == {<<>>, to_string(LowAddr), to_string(LowAddr + 1)}

BaseTexts == {<<"2", "b">>, to_string(LowAddr + 1)}

IpsLines ==
    {IpsFrame(<<"3">>, so, <<"4", "e", "a", "0">>, base, offset) :
        so \in {SONAME, OTHER_SO}, base \in BaseTexts, offset \in OffsetTexts}
      \cup {IpsFrame(<<"3">>, SONAME, <<"4", "E", "A", "0">>, <<"2", "b">>, to_string(LowAddr)),
            HEADER}

RECURSIVE ParseAll(_, _, _)
\* parse_breakpad_symbol_file on a file without a failing line.
ParseAll(sf, lines, i) ==
    IF i > Len(lines) THEN sf
    ELSE ParseAll(parse_symbol_line(sf, lines[i]).sf, lines, i + 1)

\* The symbol files of the runs: an empty one, and one with a function over
\* LowAddr..LowAddr+MaxSize that has line data at its start only.
IpsSymbolFiles ==
    {EmptySymbolFile,
     ParseAll(EmptySymbolFile,
              <<FormatRecord(FuncRec(FALSE, LowAddr, MaxSize, 0, FuncName(LowAddr))),
                FormatRecord(LineRec(LowAddr, 0, 30 + LowAddr, 2)),
                FormatRecord(FileRec(2, BAR_C))>>, 1)}

InitIps ==
    /\ pc = "rewriting"
    /\ line = <<>>
    /\ max_tokens = 0
    /\ tokens = <<>>
    /\ symbol_file \in IpsSymbolFiles
    /\ unread = IpsLines
    /\ parsed = <<>>
    /\ address = 0
    /\ result = None
    /\ output = <<>>

\* One iteration of the loop of parser_ips: the next line of the report is
\* read and what the iteration prints is added to the output.
ParserIpsLine ==
    /\ pc = "rewriting"
    /\ Len(parsed) < MaxReport
    /\ \E l \in unread :
        /\ line' = l
        /\ parsed' = Append(parsed, l)
        /\ output' = output \o parser_ips_line(symbol_file, l)
    /\ UNCHANGED <<pc, max_tokens, tokens, symbol_file, unread, address, result>>

\* End of the report: main exits.
ExitIps ==
    /\ pc = "rewriting"
    /\ pc' = "exited"
    /\ UNCHANGED <<line, max_tokens, tokens, symbol_file, unread, parsed, address, result, output>>

NextIps == ParserIpsLine \/ ExitIps

SpecIps == InitIps /\ [][NextIps]_vars

(***************************************************************************)
(* SpecOverflow: the resolver with the width of its unsigned words kept.   *)
(* A word has WordBits bits in place of the 64 of u64.  The sum            *)
(* target_address + target_size of retrieve_range (lib.rs 80) is a word    *)
(* addition: when it exceeds WordMax a build with overflow checks (debug)  *)
(* panics and a build without them (release) wraps around.  The symbol     *)
(* file holds FUNC and line records at the low and the high end of the     *)
(* address range, all fields within a word.                                *)
(***************************************************************************)
WordBits == 3       \* bits of an unsigned word (64 in the program)

WordMax == 2 ^ WordBits - 1

Builds == {"debug", "release"}

\* An aborted call, and a call that returned v.
Abort == [panic |-> TRUE]

Return(v) == [panic |-> FALSE, val |-> v]

\* The check of retrieve_range on the entry found, with the sum as the build
\* computes it.
CheckEntry(map, addr, target_address, build) ==
    IF target_address + map[target_address].size > WordMax /\ build = "debug"
    THEN Abort
    ELSE IF /\ target_address <= addr
            /\ addr <= (target_address + map[target_address].size) % (2 ^ WordBits)
         THEN Return(Some(map[target_address].item))
         ELSE Return(None)

\* RangeMap::retrieve_range on words.
retrieve_range_word(map, addr, build) ==
    IF RangeNextBack(map, addr) = -1 THEN Return(None)
    ELSE CheckEntry(map, addr, RangeNextBack(map, addr), build)

\* lookup_address from the function record on: the line index is queried
\* when a function was found, the public symbols when none was.
LookupFromFunction(sf, addr, function_record, ln) ==
    IF function_record.panic THEN Abort
    ELSE IF function_record.val.some
         THEN IF ln.panic THEN Abort
              ELSE Return(Some(Symbol(
                       function_record.val.val.name,
                       IF ln.val.some /\ ln.val.val.source_file_id \in DOMAIN sf.files
                       THEN sf.files[ln.val.val.source_file_id]
                       ELSE <<>>,
                       IF ln.val.some THEN ln.val.val.line_number ELSE -1)))
         ELSE IF find_public_symbol_by_address(sf.public_symbols, addr).some
              THEN Return(Some(Symbol(
                       find_public_symbol_by_address(sf.public_symbols, addr).val.name,
                       <<>>, -1)))
              ELSE Return(None)

\* lookup_address on words.
lookup_address_word(sf, addr, build) ==
    LookupFromFunction(sf, addr,
                       retrieve_range_word(sf.functions, addr, build),
                       retrieve_range_word(sf.lines, addr, build))

WordAddrs == {0, WordMax - 1, WordMax}

WordSizes == {0, 1, WordMax}

WordRecords ==
    {FuncRec(FALSE, a, size, 0, FuncName(a)) : a \in WordAddrs, size \in WordSizes}
        \cup {LineRec(a, size, 30 + a, 1) : a \in {WordMax - 1, WordMax}, size \in {0, 1}}
        \cup {E2EFile}

WordLines == {FormatRecord(r) : r \in WordRecords}

InitOverflow ==
    /\ pc = "parsing"
    /\ line = <<>>
    /\ max_tokens = 0
    /\ tokens = <<>>
    /\ symbol_file = EmptySymbolFile
    /\ unread = WordLines
    /\ parsed = {}
    /\ address = 0
    /\ result = None
    /\ output = <<>>

\* main (addr2line_breakpad/src/main.rs 28-39): one lookup of a word
\* address, in either build; a panic ends the process.
LookupWord ==
    /\ pc \in {"ready", "looked_up"}
    /\ \E a \in 0..WordMax, build \in Builds :
        /\ address' = a
        /\ IF lookup_address_word(symbol_file, a, build).panic
           THEN pc' = "aborted" /\ result' = result
           ELSE /\ pc' = "looked_up"
                /\ result' = lookup_address_word(symbol_file, a, build).val
    /\ UNCHANGED <<line, max_tokens, tokens, symbol_file, unread, parsed, output>>

NextOverflow == ParseLine \/ FinishParse \/ LookupWord

SpecOverflow == InitOverflow /\ [][NextOverflow]_vars

(***************************************************************************)
(* Tokenizer claims.                                                       *)
(***************************************************************************)
\* Positions of the delimiter characters of a line.
DelimPositions(ln) == {i \in 1..Len(ln) : ln[i] = " "}

\* The line is k >= 0 non-empty fields separated by single delimiters.
SingleDelimited(ln) ==
    \/ ln = <<>>
    \/ /\ ln[1] # " "
       /\ ln[Len(ln)] # " "
       /\ \A i \in 1..(Len(ln) - 1) : ~(ln[i] = " " /\ ln[i + 1] = " ")

FieldCount(ln) == IF ln = <<>> THEN 0 ELSE Cardinality(DelimPositions(ln)) + 1

\* Position of the j-th delimiter of the line.
NthDelim(ln, j) ==
    CHOOSE p \in DelimPositions(ln) :
        Cardinality({q \in DelimPositions(ln) : q < p}) = j - 1

FieldStart(ln, j) == IF j = 1 THEN 1 ELSE NthDelim(ln, j - 1) + 1

FieldEnd(ln, j) == IF j = FieldCount(ln) THEN Len(ln) ELSE NthDelim(ln, j) - 1

\* What the tokenizer contract asks for: the leading fields, the last token
\* taking all remaining text when the line has n fields or more.
ContractTokens(ln, n) ==
    [i \in 1..Min(FieldCount(ln), n) |->
        IF i = n
        THEN Tail2(ln, FieldStart(ln, i))
        ELSE SubSeq(ln, FieldStart(ln, i), FieldEnd(ln, i))]

\* C7: for every max_tokens >= 1 and every line of k >= 0 non-empty fields
\* separated by single delimiters, tokenize returns min(k, max_tokens)
\* tokens: the leading fields, the last one being all remaining text when
\* k >= max_tokens; an empty line yields no token.
C7_TokenizeContract ==
    (pc = "tokenized" /\ SingleDelimited(line))
        => tokens = ContractTokens(line, max_tokens)

\* The same contract for max_tokens >= 2 only.
TokenizeContractFromTwo ==
    (pc = "tokenized" /\ SingleDelimited(line) /\ max_tokens >= 2)
        => tokens = ContractTokens(line, max_tokens)

\* The first token of a line.
FirstField(ln) == SplitnHead(ln, SP)

\* C10: tokenize_with_optional_field equals tokenize(line, N) when the first
\* token of the line is the flag, and tokenize(line, N - 1) when it is not.
C10_OptionalFieldContract ==
    pc = "tokenized_opt"
        => tokens = IF FirstField(line) = FLAG
                    THEN tokenize(line, SP, max_tokens)
                    ELSE tokenize(line, SP, max_tokens - 1)

\* The same for max_tokens >= 3 only.
OptionalFieldContractFromThree ==
    (pc = "tokenized_opt" /\ max_tokens >= 3)
        => tokens = IF FirstField(line) = FLAG
                    THEN tokenize(line, SP, max_tokens)
                    ELSE tokenize(line, SP, max_tokens - 1)

(***************************************************************************)
(* Interval index claims.                                                  *)
(***************************************************************************)
\* The insert calls made with a start address at or below a.
CallsAtOrBelow(a) == {i \in 1..Len(parsed) : parsed[i].start <= a}

\* The call whose entry a query of a inspects: greatest start at or below a,
\* and the last call made with that start.
IsInspectedCall(i, a) ==
    /\ i \in CallsAtOrBelow(a)
    /\ \A j \in CallsAtOrBelow(a) :
        \/ parsed[j].start < parsed[i].start
        \/ (parsed[j].start = parsed[i].start /\ j <= i)

\* C2: after any sequence of insert calls, retrieve(a) returns the item of
\* the entry with the greatest start <= a if and only if a <= start + size,
\* and no match otherwise (none for an empty index, for a before every start
\* and for a strictly between two ranges); for the ranges 0-2, 2-3, 3-4, 6-7,
\* 7-8, retrieve(3) is the range starting at 3 and retrieve(5) is none.
C2_RetrieveContract ==
    pc = "retrieved" =>
        /\ CallsAtOrBelow(address) = {} => result = None
        /\ \A i \in 1..Len(parsed) :
            IsInspectedCall(i, address) =>
                result = IF address <= parsed[i].start + parsed[i].size
                         THEN Some(TestFunction(parsed[i].start, parsed[i].size, i))
                         ELSE None
        /\ (parsed = TestCalls /\ address = 3) => (result.some /\ result.val.address = 3)
        /\ (parsed = TestCalls /\ address = 5) => result = None

\* The test's ranges are in the index and retrieve(3) has answered with the
\* range starting at 3, although the range 2-3 holds 3 as well.
C2_Witness ==
    /\ pc = "retrieved"
    /\ parsed = TestCalls
    /\ address = 3
    /\ result = Some(TestFunction(3, 1, 3))

(***************************************************************************)
(* Resolver claims.                                                        *)
(***************************************************************************)
\* The start addresses of the entries of a range index that hold an address:
\* start <= a <= start + size.
Containing(map, a) == {k \in DOMAIN map : k <= a /\ a <= k + map[k].size}

\* The start addresses at or below an address.
AtOrBelow(map, a) == {k \in DOMAIN map : k <= a}

Greatest(keys) == CHOOSE k \in keys : \A j \in keys : j <= k

\* The entry of a range index with the greatest start at or below an address
\* holds the address.
GreatestHolds(map, a) ==
    /\ AtOrBelow(map, a) # {}
    /\ a <= Greatest(AtOrBelow(map, a)) + map[Greatest(AtOrBelow(map, a))].size

\* The public-symbol tier: the symbol with the greatest address at or below
\* a, file and line unknown; not found when there is none.
PublicTier(a) ==
    IF AtOrBelow(symbol_file.public_symbols, a) = {}
    THEN None
    ELSE Some(Symbol(
             symbol_file.public_symbols[Greatest(AtOrBelow(symbol_file.public_symbols, a))].name,
             <<>>, -1))

\* The ranges of an index do not overlap: each ends at or before the start
\* of the next (the data model's assumption on the function and line ranges).
NonOverlapping(map) ==
    \A k1, k2 \in DOMAIN map : k1 < k2 => k1 + map[k1].size <= k2

\* The two tiers with "a range containing a" read as any entry that holds a.
TwoTierAnyRange ==
    IF Containing(symbol_file.functions, address) # {}
    THEN /\ result.some
         /\ \E k \in Containing(symbol_file.functions, address) :
                result.val.function_name = symbol_file.functions[k].item.name
    ELSE result = PublicTier(address)

\* The two tiers with "a range containing a" read as the index defines it:
\* the entry with the greatest start <= a holds a.
TwoTierGreatestStart ==
    IF GreatestHolds(symbol_file.functions, address)
    THEN /\ result.some
         /\ result.val.function_name =
                symbol_file.functions[Greatest(AtOrBelow(symbol_file.functions, address))].item.name
    ELSE result = PublicTier(address)

\* C1: for every symbol table and address a, if the function index has a
\* range containing a the result carries that function's name, also when a
\* public symbol lies closer to a; otherwise the result is the public symbol
\* with the greatest address <= a, however far below a, with file and line
\* unknown; and not found when there is no such public symbol either.
\* Containment is the index's (greatest start <= a, a <= start + size), which
\* for ranges that do not overlap is containment in any range.
C1_TwoTierPolicy ==
    pc = "looked_up" =>
        /\ TwoTierGreatestStart
        /\ NonOverlapping(symbol_file.functions) => TwoTierAnyRange

\* A function answered although a public symbol starts above the function's
\* start, at or below the address.
C1_Witness ==
    /\ pc = "looked_up"
    /\ GreatestHolds(symbol_file.functions, address)
    /\ \E p \in AtOrBelow(symbol_file.public_symbols, address) :
            p > Greatest(AtOrBelow(symbol_file.functions, address))
    /\ result.some
    /\ result.val.function_name =
            symbol_file.functions[Greatest(AtOrBelow(symbol_file.functions, address))].item.name

\* The file name registered for the file id of the line entry at start k,
\* empty when the id has no FILE record.
FileOfLine(k) ==
    IF symbol_file.lines[k].item.source_file_id \in DOMAIN symbol_file.files
    THEN symbol_file.files[symbol_file.lines[k].item.source_file_id]
    ELSE <<>>

\* File and line attachment with "inside a range" read as any entry that
\* holds the address.
AttachmentAnyRange ==
    /\ (/\ Containing(symbol_file.functions, address) # {}
        /\ Containing(symbol_file.lines, address) = {})
            => /\ result.some
               /\ \E k \in Containing(symbol_file.functions, address) :
                    result.val.function_name = symbol_file.functions[k].item.name
               /\ result.val.source_file_name = <<>>
               /\ result.val.source_file_number = -1
    /\ (/\ Containing(symbol_file.functions, address) # {}
        /\ Containing(symbol_file.lines, address) # {})
            => /\ result.some
               /\ \E k \in Containing(symbol_file.lines, address) :
                    /\ result.val.source_file_number = symbol_file.lines[k].item.line_number
                    /\ result.val.source_file_name = FileOfLine(k)
    /\ (Containing(symbol_file.functions, address) = {} /\ result.some)
            => /\ result.val.source_file_name = <<>>
               /\ result.val.source_file_number = -1

\* File and line attachment with "inside a range" read as the index defines
\* it: the entry with the greatest start <= a holds a.
AttachmentGreatestStart ==
    /\ (/\ GreatestHolds(symbol_file.functions, address)
        /\ ~GreatestHolds(symbol_file.lines, address))
            => result = Some(Symbol(
                   symbol_file.functions[Greatest(AtOrBelow(symbol_file.functions, address))].item.name,
                   <<>>, -1))
    /\ (/\ GreatestHolds(symbol_file.functions, address)
        /\ GreatestHolds(symbol_file.lines, address))
            => result = Some(Symbol(
                   symbol_file.functions[Greatest(AtOrBelow(symbol_file.functions, address))].item.name,
                   FileOfLine(Greatest(AtOrBelow(symbol_file.lines, address))),
                   symbol_file.lines[Greatest(AtOrBelow(symbol_file.lines, address))].item.line_number))
    /\ (~GreatestHolds(symbol_file.functions, address) /\ result.some)
            => /\ result.val.source_file_name = <<>>
               /\ result.val.source_file_number = -1

\* C9: an address inside a function range and inside no line range resolves
\* to the function's name with empty file and line -1; an address inside
\* both a function range and a line range resolves with that line record's
\* number and the file registered for its file id (empty only when the id
\* has no FILE record); without a containing function no line range is
\* consulted.  Containment is the index's, which for ranges that do not
\* overlap is containment in any range.
C9_FileLineAttachment ==
    pc = "looked_up" =>
        /\ AttachmentGreatestStart
        /\ (NonOverlapping(symbol_file.functions) /\ NonOverlapping(symbol_file.lines))
                => AttachmentAnyRange

\* A lookup inside a function and a line range whose file id has a FILE
\* record, answered with the file name and the line number.
C9_Witness ==
    /\ pc = "looked_up"
    /\ GreatestHolds(symbol_file.functions, address)
    /\ GreatestHolds(symbol_file.lines, address)
    /\ result.some
    /\ result.val.source_file_name # <<>>
    /\ result.val.source_file_name = FileOfLine(Greatest(AtOrBelow(symbol_file.lines, address)))
    /\ result.val.source_file_number =
            symbol_file.lines[Greatest(AtOrBelow(symbol_file.lines, address))].item.line_number

\* The records whose lines have been read.
ReadRecords == {r \in Records : LineOf[r] \in parsed}

\* FUNC records with distinct start addresses and ranges that do not overlap
\* (a range may end exactly where another starts).
WellFormedFile ==
    \A r1, r2 \in {r \in ReadRecords : r.kind = "FUNC"} :
        r1 # r2 =>
            /\ r1.address # r2.address
            /\ \/ r1.address + r1.size <= r2.address
               \/ r2.address + r2.size <= r1.address

\* C8: after parsing a well-formed symbol file, the lookup of a function's
\* start address answers with that function's own name, also when another
\* function's range ends at that start and public symbols lie at or near it.
C8_RoundTrip ==
    (pc = "looked_up" /\ WellFormedFile) =>
        \A r \in ReadRecords :
            (r.kind = "FUNC" /\ r.address = address)
                => (result.some /\ result.val.function_name = r.name)

\* The start of a function looked up, where another function's range ends
\* and a public symbol lies, answered with the function's own name.
C8_Witness ==
    /\ pc = "looked_up"
    /\ WellFormedFile
    /\ \E r1, r2, p \in ReadRecords :
        /\ r1.kind = "FUNC" /\ r2.kind = "FUNC" /\ p.kind = "PUBLIC"
        /\ r1.size > 0
        /\ r1.address + r1.size = r2.address
        /\ p.address = r2.address
        /\ address = r2.address
        /\ result.some
        /\ result.val.function_name = r2.name

\* The symbol file of the end-to-end scenario has been parsed and 0x101
\* looked up.
E2ELookedUp ==
    /\ pc = "looked_up"
    /\ parsed = {LineOf[E2EFunc], LineOf[E2ELine], LineOf[E2EFile]}
    /\ address = E2EQuery

\* C6 as stated: for the file FUNC 100 10 0 myFunc, 1a 2 5 1, FILE 1 foo.c,
\* the lookup of 0x101 yields myFunc, foo.c, line 5.
C6_EndToEnd ==
    E2ELookedUp => result = Some(Symbol(MY_FUNC, FOO_C, 5))

\* C6: for that file the lookup of 0x101 yields myFunc with the file empty
\* and the line number -1: the line record covers 0x1a..0x1c, which does not
\* hold 0x101.
C6_EndToEndFunctionOnly ==
    E2ELookedUp => result = Some(Symbol(MY_FUNC, <<>>, -1))

\* The scenario has run and the lookup has found a symbol.
C6_Witness == E2ELookedUp /\ result.some

\* A FUNC or PUBLIC record is registered in its index with its fields and the
\* multiple-definition flag of its marker.
Registered(r) ==
    IF r.kind = "FUNC"
    THEN /\ r.address \in DOMAIN symbol_file.functions
         /\ symbol_file.functions[r.address] =
                [item |-> [address |-> r.address, size |-> r.size, name |-> r.name,
                           is_multiple |-> r.m,
                           stack_param_size |-> r.stack_param_size],
                 size |-> r.size]
    ELSE /\ r.address \in DOMAIN symbol_file.public_symbols
         /\ symbol_file.public_symbols[r.address] =
                [address |-> r.address, name |-> r.name, is_multiple |-> r.m,
                 stack_param_size |-> r.stack_param_size]

MarkedRecords == {r \in FuncRecords \cup PublicRecords : r.m}

\* C5: a FUNC or PUBLIC line with the m marker parses without error and
\* registers the record with the address, size, stack-parameter size and name
\* of the line and the multiple-definition flag set.
C5_MarkerAccepted ==
    \A r \in MarkedRecords :
        parsed = {LineOf[r]} => (pc # "panicked" /\ Registered(r))

\* The same for the FUNC record only.
FuncMarkerAccepted ==
    \A r \in MarkedRecords :
        (r.kind = "FUNC" /\ parsed = {LineOf[r]}) => (pc # "panicked" /\ Registered(r))

\* A line without the marker registers its record.
UnmarkedRegistered ==
    \A r \in (FuncRecords \cup PublicRecords) \ MarkedRecords :
        parsed = {LineOf[r]} => (pc # "panicked" /\ Registered(r))

(***************************************************************************)
(* Crash-log rewriting claims.                                             *)
(***************************************************************************)
\* A report line that is a frame of the target module.
TargetFrame(ln) == captures(ln).ok /\ captures(ln).so = SONAME

\* The line with its offset field, the digits that end it, replaced by the
\* description of the offset's address.
OffsetFieldRewritten(sf, ln) ==
    SubSeq(ln, 1, Len(ln) - Len(captures(ln).offset))
        \o get_symed_line(sf, from_str_radix(captures(ln).offset, 10, FALSE).val)

\* The number of places of a line where a text occurs.
Occurrences(ln, txt) ==
    Cardinality({i \in 1..Len(ln) : starts_with(Tail2(ln, i), txt)})

\* C3: every line of the report that does not match the frame pattern, or
\* matches it with a module other than the target, is emitted unchanged at
\* its position in the output.
C3_OtherLinesUnchanged ==
    [][(pc' = "rewriting" /\ ~TargetFrame(line')) => output' = Append(output, line')]_vars

\* The same for the lines that do not match the frame pattern only.
UnmatchedLinesUnchanged ==
    [][(pc' = "rewriting" /\ ~captures(line').ok) => output' = Append(output, line')]_vars

\* C4: for every line that matches the pattern with the target module the
\* symbolicator emits exactly one line, the input line with only the offset
\* field replaced by the resolved description or the not-found placeholder,
\* also when the offset's digits occur elsewhere in the line.
C4_OnlyOffsetReplaced ==
    [][(pc' = "rewriting" /\ TargetFrame(line')) =>
            /\ Len(output') = Len(output) + 1
            /\ SubSeq(output', 1, Len(output)) = output
            /\ captures(line').offset # <<>> =>
                    output'[Len(output')] = OffsetFieldRewritten(symbol_file, line')]_vars

\* The same for the frames whose offset is not empty and whose digits occur
\* once in the line.
OffsetReplacedWhenUnique ==
    [][(/\ pc' = "rewriting"
        /\ TargetFrame(line')
        /\ captures(line').offset # <<>>
        /\ Occurrences(line', captures(line').offset) = 1) =>
            output' = Append(output, OffsetFieldRewritten(symbol_file, line'))]_vars

(***************************************************************************)
(* Word-width claims.                                                      *)
(***************************************************************************)
\* The entry a query of the index inspects has its end start + size within a
\* word.
EndWithinWord(map, a) ==
    AtOrBelow(map, a) # {}
        => Greatest(AtOrBelow(map, a)) + map[Greatest(AtOrBelow(map, a))].size <= WordMax

\* C11: for every symbol table parsed from FUNC and line records with word
\* fields and every word address, lookup_address returns a resolved symbol
\* or not found as a normal value: the sum start + size of retrieve_range
\* never leaves the word range, so no lookup aborts and none is changed by a
\* wrapped sum.
C11_LookupNeverFails ==
    /\ pc # "aborted"
    /\ pc = "looked_up" =>
        /\ EndWithinWord(symbol_file.functions, address)
        /\ result = lookup_address(symbol_file, address)

\* The same for the lookups whose inspected function and line entries end
\* within a word.
LookupWithinWord ==
    (/\ pc \in {"looked_up", "aborted"}
     /\ EndWithinWord(symbol_file.functions, address)
     /\ EndWithinWord(symbol_file.lines, address))
        => (pc = "looked_up" /\ result = lookup_address(symbol_file, address))

====
